---------------------------- MODULE Spec2Model ----------------------------
(***************************************************************************)
(* Model of Openai_rag.py: a Streamlit script that answers questions over  *)
(* a PDF.  Every user interaction re-runs the script; a submitted prompt    *)
(* runs one query turn: initialize_llm_model, load_and_split_pdf,           *)
(* initialize_embeddings, qa_with_sources (initialize_chroma,               *)
(* retrieve_documents, the RetrievalQAWithSourcesChain), then the answer is *)
(* written and appended to st.session_state.messages.                       *)
(*                                                                         *)
(* Library calls (PyPDFLoader, HuggingFaceEmbeddings, Chroma, the chain,    *)
(* ChatOpenAI) are modelled by their outcome: each either returns or        *)
(* raises, chosen nondeterministically within what its inputs allow.        *)
(* A text is modelled by its length in characters, a chunk list by the      *)
(* sequence of its chunks' lengths.                                         *)
(***************************************************************************)
EXTENDS Naturals, Sequences, FiniteSets, TLC

VARIABLES
    selected_example_pdfs,  \* the sidebar selectbox (line 24)
    uploaded_file,          \* the file_uploader's value (lines 130-132)
    Open_api_token,         \* the sidebar token input (line 13)
    messages,               \* st.session_state.messages
    tempFiles,              \* number of NamedTemporaryFile files on disk
    pc,                     \* position of the script run in the query block
    prompt,                 \* the chat_input value of this turn
    llm_instance,           \* locals of the query block
    chunks,
    embedding_instance,
    db,
    retriever_instance,
    answer,
    errors,                 \* st.error texts shown by this script run
    written,                \* st.write texts shown by this script run
    uncaught,               \* the exception that ended this script run, if any
    calls,                  \* functions called so far in this turn, in order
    failures,               \* the calls of this turn that failed, in order
    steps,                  \* query-phase steps executed this turn: <<step, ok>>
    llmCalls,               \* language-model invocations of this turn
    turn,                   \* query turns started so far
    prevFailures,           \* failures of the previous turn
    loadsSinceSelect,       \* loads since the document set last changed
    buildsSinceSelect       \* index builds since the document set last changed

vars == << selected_example_pdfs, uploaded_file, Open_api_token, messages,
           tempFiles, pc, prompt, llm_instance, chunks, embedding_instance,
           db, retriever_instance, answer, errors, written, uncaught, calls,
           failures, steps, llmCalls, turn, prevFailures, loadsSinceSelect,
           buildsSinceSelect >>

-----------------------------------------------------------------------------
(* Bounds of the model *)

MaxTurns == 2

-----------------------------------------------------------------------------
(* Values *)

\* Python's None, where the value is otherwise an object
None == [none |-> TRUE]

\* chat_input without a submitted prompt (falsy, line 152)
NoPrompt == ""

NoException == "no exception"

\* options of the selectbox, line 24
SelectOptions == {"Short Stories", "Marketing Results", "Upload your own data"}

\* lines 15-18
example_pdfs ==
    ("Short Stories" :> "/Users/riccardo/Desktop/Github/LLM_RAG/16_Kurzgeschichten.pdf")
    @@ ("Marketing Results" :> "/Users/riccardo/Desktop/Github/LLM_RAG/s12943-023-01867-y.pdf")

\* files a user may put in the uploader
UploadFiles == {[name |-> "notes.pdf"], [name |-> "broken.pdf"]}

\* the token the text_input starts with (line 13), and a working one
Tokens == {"sk-", "sk-valid"}

Prompts == {"What is the story about?"}

\* The page texts of a PDF source, each by its length in characters;
\* a source that is not a well-formed PDF has none to extract.
WellFormed(source) == source # "broken.pdf"

PdfPages(source) ==
    CASE source = "notes.pdf" -> << 120 >>
      [] source = example_pdfs["Short Stories"] -> << 350, 120 >>
      [] source = example_pdfs["Marketing Results"] -> << 4500 >>
      [] OTHER -> << >>


-----------------------------------------------------------------------------
(* Helpers *)

InSeq(x, s) == \E i \in 1..Len(s) : s[i] = x

Count(x, s) == Cardinality({i \in 1..Len(s) : s[i] = x})

Last(s) == s[Len(s)]

IsPrefix(s, t) == Len(s) <= Len(t) /\ SubSeq(t, 1, Len(s)) = s

\* what a function of the script hands back to the script run
Returned(v, errs) == [value |-> v, errors |-> errs, raised |-> NoException]

-----------------------------------------------------------------------------
(* Text splitting *)

\* RecursiveCharacterTextSplitter on a text of `len` characters: chunks of at
\* most `size` characters, a chunk starting `overlap` characters before the
\* end of the one before it.
RECURSIVE SplitText(_, _, _)
SplitText(len, size, overlap) ==
    IF len = 0 THEN << >>
    ELSE IF len <= size THEN << len >>
    ELSE << size >> \o SplitText(len - (size - overlap), size, overlap)

RECURSIVE SplitPages(_, _, _)
SplitPages(pages, size, overlap) ==
    IF pages = << >> THEN << >>
    ELSE SplitText(Head(pages), size, overlap)
             \o SplitPages(Tail(pages), size, overlap)

\* text_splitter_instance, lines 108-112
chunk_size == 200

chunk_overlap == 50

\* loader.load_and_split() is called without a text_splitter (lines 47, 57),
\* so PyPDFLoader splits with a RecursiveCharacterTextSplitter of its own,
\* built with the library's defaults.
DefaultChunkSize == 4000

DefaultChunkOverlap == 200

loader_load_and_split(source) ==
    SplitPages(PdfPages(source), DefaultChunkSize, DefaultChunkOverlap)

-----------------------------------------------------------------------------
(* load_and_split_pdf, lines 39-61 *)

\* Which library call of load_and_split_pdf raises, if any.
LoadOutcomes(uploaded, selected_example) ==
    IF uploaded # None
    THEN {"tmp_fail", "write_fail", "parse_fail"}
            \cup (IF WellFormed(uploaded.name) THEN {"ok", "unlink_fail"} ELSE {})
    ELSE IF selected_example \in DOMAIN example_pdfs
    THEN {"ok", "parse_fail"}
    ELSE {"ok"}

\* value: the chunk list returned; temp: temporary files left on disk.
load_and_split_pdf(uploaded, selected_example, outcome) ==
    IF uploaded # None
    THEN \* lines 42-50
         CASE outcome = "tmp_fail" ->    \* NamedTemporaryFile raises: no file
                [value |-> << >>, raised |-> NoException, temp |-> 0,
                 errors |-> << "Error loading and splitting the PDF: OSError" >>]
           [] outcome = "write_fail" ->  \* line 45 raises; delete=False
                [value |-> << >>, raised |-> NoException, temp |-> 1,
                 errors |-> << "Error loading and splitting the PDF: OSError" >>]
           [] outcome = "parse_fail" ->  \* line 46 or 47 raises
                [value |-> << >>, raised |-> NoException, temp |-> 1,
                 errors |-> << "Error loading and splitting the PDF: PdfReadError" >>]
           [] outcome = "unlink_fail" -> \* line 48 raises, after chunks += ...
                [value |-> loader_load_and_split(uploaded.name),
                 raised |-> NoException, temp |-> 1,
                 errors |-> << "Error loading and splitting the PDF: OSError" >>]
           [] OTHER ->                   \* line 48: os.unlink
                [value |-> loader_load_and_split(uploaded.name),
                 raised |-> NoException, temp |-> 0, errors |-> << >>]
    ELSE IF selected_example = ""
    THEN [value |-> << >>, raised |-> NoException, temp |-> 0, errors |-> << >>]
    ELSE IF selected_example \notin DOMAIN example_pdfs
    THEN \* line 53: example_pdfs[selected_example], outside any try
         [value |-> << >>, raised |-> "KeyError", temp |-> 0, errors |-> << >>]
    ELSE IF example_pdfs[selected_example] = ""
    THEN [value |-> << >>, raised |-> NoException, temp |-> 0, errors |-> << >>]
    ELSE \* lines 54-59
         IF outcome = "parse_fail"
         THEN [value |-> << >>, raised |-> NoException, temp |-> 0,
               errors |-> << "Error loading and splitting the example PDF: PdfReadError" >>]
         ELSE [value |-> loader_load_and_split(example_pdfs[selected_example]),
               raised |-> NoException, temp |-> 0, errors |-> << >>]

-----------------------------------------------------------------------------
(* The initialisers, lines 64-103 *)

\* initialize_embeddings without its try/except: the exception leaves it
initialize_embeddings_Unguarded(outcome) ==
    IF outcome = "ok"
    THEN Returned([model_name |-> "all-MiniLM-L6-v2"], << >>)
    ELSE [value |-> None, errors |-> << >>, raised |-> "OSError"]

\* lines 64-70
initialize_embeddings(outcome) ==
    IF outcome = "ok"
    THEN Returned([model_name |-> "all-MiniLM-L6-v2"], << >>)
    ELSE Returned(None, << "Error initializing embeddings: OSError" >>)

\* lines 73-79; the index holds the chunks it was built from
initialize_chroma(chunk_list, embedding_function, outcome) ==
    IF outcome = "ok"
    THEN Returned([documents |-> chunk_list, embedding |-> embedding_function], << >>)
    ELSE Returned(None, << "Error initializing Chroma database: ValueError" >>)

\* lines 92-103
initialize_llm_model(token, outcome) ==
    IF outcome = "ok"
    THEN Returned([openai_api_key |-> token, model_name |-> "gpt-3.5-turbo"], << >>)
    ELSE Returned(None, << "Error initializing OpenAI model: ValidationError" >>)

-----------------------------------------------------------------------------
(* qa_with_sources, lines 82-89 and 106-123 *)

\* retriever.invoke(query), line 85: the retriever embeds the query and
\* searches the index; the documents it finds are dropped.
RetrieverOutcomes == {"ok", "embed_fail", "search_fail"}

RetrieverSteps(outcome) ==
    CASE outcome = "embed_fail" -> << <<"Embedding", FALSE>> >>
      [] outcome = "search_fail" -> << <<"Embedding", TRUE>>, <<"Retrieving", FALSE>> >>
      [] OTHER -> << <<"Embedding", TRUE>>, <<"Retrieving", TRUE>> >>

\* lines 82-89; steps: the query-phase steps the call executed
retrieve_documents(database, query, outcome) ==
    IF database = None
    THEN \* line 84 raises AttributeError inside the try
         [value |-> None, raised |-> NoException, steps |-> << >>,
          errors |-> << "Error retrieving documents: AttributeError" >>]
    ELSE IF outcome = "ok"
    THEN [value |-> [vectorstore |-> database, k |-> 2],
          raised |-> NoException, steps |-> RetrieverSteps(outcome),
          errors |-> << >>]
    ELSE [value |-> None, raised |-> NoException,
          steps |-> RetrieverSteps(outcome),
          errors |-> << "Error retrieving documents: RuntimeError" >>]

\* The credential is checked by the remote call alone: the token the input
\* starts with (line 13) is refused, any token may meet a rate limit.
ChainOutcomes(llm) ==
    {"embed_fail", "search_fail", "llm_fail"}
        \cup (IF llm.openai_api_key = "sk-" THEN {} ELSE {"ok"})

LlmException(llm) ==
    IF llm.openai_api_key = "sk-" THEN "AuthenticationError" ELSE "RateLimitError"

\* a chain that asks the model again when its call fails
LlmCallsRetrying(outcome) ==
    IF outcome = "llm_fail" THEN 2 ELSE IF outcome = "ok" THEN 1 ELSE 0

\* Language-model invocations of one chain.invoke (chain_type="stuff",
\* line 119): none when retrieval raises first, else one.
LlmCallsOf(outcome) ==
    IF outcome \in {"ok", "llm_fail"} THEN 1 ELSE 0

\* qa_with_sources_result.invoke(query), lines 119-120: the chain asks its
\* retriever for the documents of the query, then calls the model once with
\* them stuffed into the prompt.
chain_invoke(llm, retriever, query, outcome) ==
    CASE outcome \in {"embed_fail", "search_fail"} ->
            [value |-> None, raised |-> "RuntimeError",
             steps |-> RetrieverSteps(outcome), llmCalls |-> LlmCallsOf(outcome)]
      [] outcome = "llm_fail" ->
            [value |-> None, raised |-> LlmException(llm),
             steps |-> RetrieverSteps("ok") \o << <<"Synthesizing", FALSE>> >>,
             llmCalls |-> LlmCallsOf(outcome)]
      [] OTHER ->
            [value |-> [question |-> query, answer |-> "Answer to " \o query,
                        sources |-> retriever.vectorstore.documents],
             raised |-> NoException,
             steps |-> RetrieverSteps("ok") \o << <<"Synthesizing", TRUE>> >>,
             llmCalls |-> LlmCallsOf(outcome)]

\* line 115
chroma_error_answer == [answer |-> "Error initializing Chroma database."]

\* line 118
retrieve_error_answer == [answer |-> "Error retrieving documents."]

\* an except branch that returns its message under another key
qa_error_answer_NoAnswerKey(e) == [error |-> "Error processing request: " \o e]

\* lines 121-123
qa_error_answer(e) == [answer |-> "Error processing request: " \o e]

\* an assignment of a new list where the script appends
AppendMessage_Overwrite(msgs, role, content) ==
    << [role |-> role, content |-> content] >>

\* lines 153, 168 (190, 205; 231, 246)
AppendMessage(msgs, role, content) ==
    Append(msgs, [role |-> role, content |-> content])

-----------------------------------------------------------------------------
(* The script *)

turnLocals == << prompt, llm_instance, chunks, embedding_instance, db,
                 retriever_instance, answer >>

session == << selected_example_pdfs, uploaded_file, Open_api_token >>

\* the failures of the last turn that ran
LastFailures == IF pc = "Done" THEN failures ELSE prevFailures

\* The state after the first run of the script: the selectbox shows its
\* first option, nothing is uploaded, lines 181-182 have made the history.
Init ==
    /\ selected_example_pdfs = "Short Stories"
    /\ uploaded_file = None
    /\ Open_api_token = "sk-"
    /\ messages = << >>
    /\ tempFiles = 0
    /\ pc = "Idle"
    /\ prompt = NoPrompt
    /\ llm_instance = None
    /\ chunks = << >>
    /\ embedding_instance = None
    /\ db = None
    /\ retriever_instance = None
    /\ answer = None
    /\ errors = << >>
    /\ written = << >>
    /\ uncaught = NoException
    /\ calls = << >>
    /\ failures = << >>
    /\ steps = << >>
    /\ llmCalls = 0
    /\ turn = 0
    /\ prevFailures = << >>
    /\ loadsSinceSelect = 0
    /\ buildsSinceSelect = 0

\* A run of the script with no prompt: nothing of the query block executes.
RerunWithoutPrompt ==
    /\ pc \in {"Idle", "Done"}
    /\ pc' = "Idle"
    /\ prompt' = NoPrompt
    /\ llm_instance' = None
    /\ chunks' = << >>
    /\ embedding_instance' = None
    /\ db' = None
    /\ retriever_instance' = None
    /\ answer' = None
    /\ errors' = << >>
    /\ written' = << >>
    /\ uncaught' = NoException
    /\ calls' = << >>
    /\ failures' = << >>
    /\ steps' = << >>
    /\ llmCalls' = 0
    /\ prevFailures' = LastFailures
    /\ UNCHANGED << messages, tempFiles, turn >>

\* The user picks another document set in the selectbox (line 24); the
\* uploader is not drawn unless "Upload your own data" is chosen (line 130).
SelectExample(s) ==
    /\ s # selected_example_pdfs
    /\ RerunWithoutPrompt
    /\ selected_example_pdfs' = s
    /\ uploaded_file' = None
    /\ loadsSinceSelect' = 0
    /\ buildsSinceSelect' = 0
    /\ UNCHANGED Open_api_token

\* The user puts a file in the uploader, or takes it out (lines 131-132).
UploadFile(f) ==
    /\ selected_example_pdfs = "Upload your own data"
    /\ f # uploaded_file
    /\ RerunWithoutPrompt
    /\ uploaded_file' = f
    /\ loadsSinceSelect' = 0
    /\ buildsSinceSelect' = 0
    /\ UNCHANGED << selected_example_pdfs, Open_api_token >>

\* The user types a token in the sidebar (line 13).
EnterToken(t) ==
    /\ t # Open_api_token
    /\ RerunWithoutPrompt
    /\ Open_api_token' = t
    /\ UNCHANGED << selected_example_pdfs, uploaded_file, loadsSinceSelect,
                    buildsSinceSelect >>

\* lines 152-154 (189-191, 230-232): a prompt starts a query turn
SubmitPrompt(p) ==
    /\ pc \in {"Idle", "Done"}
    /\ turn < MaxTurns
    /\ turn' = turn + 1
    /\ messages' = AppendMessage(messages, "user", p)
    /\ pc' = "InitLLM"
    /\ prompt' = p
    /\ llm_instance' = None
    /\ chunks' = << >>
    /\ embedding_instance' = None
    /\ db' = None
    /\ retriever_instance' = None
    /\ answer' = None
    /\ errors' = << >>
    /\ written' = << >>
    /\ uncaught' = NoException
    /\ calls' = << >>
    /\ failures' = << >>
    /\ steps' = << >>
    /\ llmCalls' = 0
    /\ prevFailures' = LastFailures
    /\ UNCHANGED << session, tempFiles, loadsSinceSelect, buildsSinceSelect >>

\* lines 157-159 (194-196, 235-237)
CallInitLLM ==
    /\ pc = "InitLLM"
    /\ \E outcome \in {"ok", "fail"} :
        LET r == initialize_llm_model(Open_api_token, outcome) IN
        /\ calls' = Append(calls, "initialize_llm_model")
        /\ errors' = errors \o r.errors
        /\ llm_instance' = r.value
        /\ IF r.value = None
           THEN /\ written' = Append(written, "Error initializing the LLM model.")
                /\ failures' = Append(failures, "initialize_llm_model")
                /\ pc' = "Done"
           ELSE /\ pc' = "Load"
                /\ UNCHANGED << written, failures >>
    /\ UNCHANGED << session, messages, tempFiles, prompt, chunks,
                    embedding_instance, db, retriever_instance, answer,
                    uncaught, steps, llmCalls, turn, prevFailures,
                    loadsSinceSelect, buildsSinceSelect >>

\* line 161 (198, 239)
CallLoad ==
    /\ pc = "Load"
    /\ \E outcome \in LoadOutcomes(uploaded_file, selected_example_pdfs) :
        LET r == load_and_split_pdf(uploaded_file, selected_example_pdfs, outcome) IN
        /\ calls' = Append(calls, "load_and_split_pdf")
        /\ errors' = errors \o r.errors
        /\ tempFiles' = tempFiles + r.temp
        /\ failures' = IF r.errors # << >> \/ r.raised # NoException
                       THEN Append(failures, "load_and_split_pdf")
                       ELSE failures
        /\ IF r.raised # NoException
           THEN \* the exception ends the script run
                /\ uncaught' = r.raised
                /\ pc' = "Done"
                /\ UNCHANGED chunks
           ELSE /\ chunks' = r.value
                /\ pc' = "InitEmb"
                /\ UNCHANGED uncaught
    /\ loadsSinceSelect' = loadsSinceSelect + 1
    /\ UNCHANGED << session, messages, prompt, llm_instance,
                    embedding_instance, db, retriever_instance, answer,
                    written, steps, llmCalls, turn, prevFailures,
                    buildsSinceSelect >>

\* lines 162-164 (199-201, 240-242)
CallInitEmbeddings ==
    /\ pc = "InitEmb"
    /\ \E outcome \in {"ok", "fail"} :
        LET r == initialize_embeddings(outcome) IN
        /\ calls' = Append(calls, "initialize_embeddings")
        /\ errors' = errors \o r.errors
        /\ IF r.raised # NoException
           THEN /\ uncaught' = r.raised
                /\ failures' = Append(failures, "initialize_embeddings")
                /\ pc' = "Done"
                /\ UNCHANGED << embedding_instance, written >>
           ELSE /\ embedding_instance' = r.value
                /\ UNCHANGED uncaught
                /\ IF r.value = None
                   THEN /\ written' = Append(written, "Error initializing embeddings.")
                        /\ failures' = Append(failures, "initialize_embeddings")
                        /\ pc' = "Done"
                   ELSE /\ pc' = "QaChroma"
                        /\ UNCHANGED << written, failures >>
    /\ UNCHANGED << session, messages, tempFiles, prompt, llm_instance, chunks,
                    db, retriever_instance, answer, steps, llmCalls, turn,
                    prevFailures, loadsSinceSelect, buildsSinceSelect >>

\* line 166 (203, 244) into qa_with_sources, lines 106-115.  The splitter of
\* lines 108-112 is built and never applied: the chunks go to the index as
\* load_and_split_pdf returned them.
QaChroma ==
    /\ pc = "QaChroma"
    /\ \E outcome \in {"ok", "fail"} :
        LET r == initialize_chroma(chunks, embedding_instance, outcome) IN
        /\ calls' = calls \o << "qa_with_sources", "initialize_chroma" >>
        /\ errors' = errors \o r.errors
        /\ db' = r.value
        /\ IF r.value = None
           THEN /\ answer' = chroma_error_answer
                /\ failures' = Append(failures, "initialize_chroma")
                /\ pc' = "Write"
                /\ UNCHANGED buildsSinceSelect
           ELSE /\ buildsSinceSelect' = buildsSinceSelect + 1
                /\ pc' = "QaRetrieve"
                /\ UNCHANGED << answer, failures >>
    /\ UNCHANGED << session, messages, tempFiles, prompt, llm_instance, chunks,
                    embedding_instance, retriever_instance, written, uncaught,
                    steps, llmCalls, turn, prevFailures, loadsSinceSelect >>

\* lines 116-118
QaRetrieve ==
    /\ pc = "QaRetrieve"
    /\ \E outcome \in RetrieverOutcomes :
        LET r == retrieve_documents(db, prompt, outcome) IN
        /\ calls' = Append(calls, "retrieve_documents")
        /\ errors' = errors \o r.errors
        /\ steps' = steps \o r.steps
        /\ retriever_instance' = r.value
        /\ IF r.value = None
           THEN /\ answer' = retrieve_error_answer
                /\ failures' = Append(failures, "retrieve_documents")
                /\ pc' = "Write"
           ELSE /\ pc' = "QaChain"
                /\ UNCHANGED << answer, failures >>
    /\ UNCHANGED << session, messages, tempFiles, prompt, llm_instance, chunks,
                    embedding_instance, db, written, uncaught, llmCalls, turn,
                    prevFailures, loadsSinceSelect, buildsSinceSelect >>

\* lines 119-123
QaChain ==
    /\ pc = "QaChain"
    /\ \E outcome \in ChainOutcomes(llm_instance) :
        LET r == chain_invoke(llm_instance, retriever_instance, prompt, outcome) IN
        /\ calls' = Append(calls, "RetrievalQAWithSourcesChain")
        /\ steps' = steps \o r.steps
        /\ llmCalls' = llmCalls + r.llmCalls
        /\ IF r.raised # NoException
           THEN \* except Exception as e
                /\ errors' = Append(errors, "Error processing QA: " \o r.raised)
                /\ answer' = qa_error_answer(r.raised)
                /\ failures' = Append(failures, "RetrievalQAWithSourcesChain")
           ELSE /\ answer' = r.value
                /\ UNCHANGED << errors, failures >>
    /\ pc' = "Write"
    /\ UNCHANGED << session, messages, tempFiles, prompt, llm_instance, chunks,
                    embedding_instance, db, retriever_instance, written,
                    uncaught, turn, prevFailures, loadsSinceSelect,
                    buildsSinceSelect >>

\* lines 167-168 (204-205, 245-246)
WriteAnswer ==
    /\ pc = "Write"
    /\ IF "answer" \in DOMAIN answer
       THEN /\ written' = Append(written, answer["answer"])
            /\ messages' = AppendMessage(messages, "assistant", answer["answer"])
            /\ UNCHANGED uncaught
       ELSE \* answer["answer"] raises KeyError
            /\ uncaught' = "KeyError"
            /\ UNCHANGED << written, messages >>
    /\ pc' = "Done"
    /\ UNCHANGED << session, tempFiles, turnLocals, errors, calls, failures,
                    steps, llmCalls, turn, prevFailures, loadsSinceSelect,
                    buildsSinceSelect >>

Next ==
    \/ \E s \in SelectOptions : SelectExample(s)
    \/ \E f \in UploadFiles \cup {None} : UploadFile(f)
    \/ \E t \in Tokens : EnterToken(t)
    \/ \E p \in Prompts : SubmitPrompt(p)
    \/ CallInitLLM
    \/ CallLoad
    \/ CallInitEmbeddings
    \/ QaChroma
    \/ QaRetrieve
    \/ QaChain
    \/ WriteAnswer

Spec == Init /\ [][Next]_vars

-----------------------------------------------------------------------------
(* Properties *)

StepNames(trace) == [i \in 1..Len(trace) |-> trace[i][1]]

Reached(name) == InSeq(name, calls)

Failed(name) == InSeq(name, failures)

UserMessage(p) == [role |-> "user", content |-> p]

AssistantMessage(text) == [role |-> "assistant", content |-> text]

\* C1: whatever the selection and the upload state, and whether or not
\* parsing fails, load_and_split_pdf returns to its caller: no exception
\* escapes it and ends the script run.
C1_LoadNeverRaises ==
    (calls # << >> /\ Last(calls) = "load_and_split_pdf")
        => uncaught = NoException

\* C2: once load_and_split_pdf has returned, the temporary file it made
\* for the uploaded bytes is gone, on every exit path.  (The call is one
\* step, so every state lies outside it.)
C2_NoTempFileLeft == tempFiles = 0

\* C3: when the language-model call fails, qa_with_sources returns a record
\* with a non-empty error message under "answer" and no sources, and no
\* exception leaves qa_with_sources or the caller that reads
\* answer["answer"]: the message is written and appended as the reply.
C3_LlmFailureDegrades ==
    InSeq(<<"Synthesizing", FALSE>>, steps) =>
        /\ pc \in {"Write", "Done"}
        /\ uncaught = NoException
        /\ "answer" \in DOMAIN answer
        /\ "sources" \notin DOMAIN answer
        /\ answer["answer"] # ""
        /\ answer["answer"] \in {"Error processing request: AuthenticationError",
                                 "Error processing request: RateLimitError"}
        /\ pc = "Done" =>
              /\ Last(written) = answer["answer"]
              /\ Last(messages) = AssistantMessage(answer["answer"])

C3_Witness ==
    /\ pc = "Done"
    /\ Open_api_token = "sk-"
    /\ InSeq(<<"Synthesizing", FALSE>>, steps)
    /\ Last(messages) = AssistantMessage("Error processing request: AuthenticationError")

StepRank(name) ==
    CASE name = "Embedding" -> 1
      [] name = "Retrieving" -> 2
      [] OTHER -> 3

\* C4: within one query turn the steps Embedding, Retrieving, Synthesizing
\* run in that order, each at most once, and a step that fails is the last
\* step of the turn.
C4_StepsOnceInOrder ==
    /\ \A i, j \in 1..Len(steps) :
          i < j => StepRank(steps[i][1]) < StepRank(steps[j][1])
    /\ \A i \in 1..Len(steps) : ~steps[i][2] => i = Len(steps)

\* C5: the language model is invoked at most once in a query turn, and
\* exactly once in a turn that reaches synthesis.
C5_OneLlmCallPerQuery ==
    /\ llmCalls <= 1
    /\ Count("Synthesizing", StepNames(steps)) <= 1
    /\ InSeq("Synthesizing", StepNames(steps)) => llmCalls = 1
    /\ (pc \in {"Write", "Done"} /\ "sources" \in DOMAIN answer) => llmCalls = 1

C5_Witness ==
    /\ pc = "Done"
    /\ llmCalls = 1
    /\ "sources" \in DOMAIN answer
    /\ Last(messages) = AssistantMessage(answer["answer"])

\* C6: for query turns against the same unchanged document set, the load
\* and the index build run for the first query only.
C6_IndexBuiltOnce == loadsSinceSelect <= 1 /\ buildsSinceSelect <= 1

\* C7: every chunk handed to the vector index is at most chunk_size (200)
\* characters long.
C7_IndexedChunksWithinSize ==
    db # None =>
        \A i \in 1..Len(db.documents) : db.documents[i] <= chunk_size

\* C8: when loading fails in a query turn, nothing is attempted after it in
\* that turn: no embedding initialisation, index build, retrieval or
\* language-model call.
C8_LoadFailureShortCircuits ==
    Failed("load_and_split_pdf") =>
        /\ ~Reached("initialize_embeddings")
        /\ ~Reached("initialize_chroma")
        /\ ~Reached("retrieve_documents")
        /\ ~Reached("RetrievalQAWithSourcesChain")

\* C9: a failure of embedding initialisation or of index construction ends
\* the current turn only: its error is shown, no query-phase step runs and
\* the model is not called, no exception ends the script run, and a next
\* prompt is accepted and starts a turn from scratch.
C9_EmbeddingOrIndexFailureAbortsTurnOnly ==
    /\ (Failed("initialize_embeddings") \/ Failed("initialize_chroma")) =>
          /\ uncaught = NoException
          /\ llmCalls = 0
          /\ steps = << >>
          /\ ~Reached("RetrievalQAWithSourcesChain")
    /\ Failed("initialize_embeddings") =>
          /\ pc = "Done"
          /\ InSeq("Error initializing embeddings: OSError", errors)
          /\ Last(written) = "Error initializing embeddings."
    /\ Failed("initialize_chroma") =>
          /\ pc \in {"Write", "Done"}
          /\ InSeq("Error initializing Chroma database: ValueError", errors)
          /\ answer = [answer |-> "Error initializing Chroma database."]
          /\ pc = "Done" =>
                /\ Last(written) = "Error initializing Chroma database."
                /\ Last(messages) =
                      AssistantMessage("Error initializing Chroma database.")
    /\ (pc = "Done" /\ turn < MaxTurns) => ENABLED (\E p \in Prompts : SubmitPrompt(p))
    /\ pc = "InitLLM" =>
          /\ calls = << >> /\ failures = << >> /\ steps = << >>
          /\ llmCalls = 0 /\ answer = None /\ uncaught = NoException

\* a turn that failed at embedding initialisation, followed by a turn that
\* completed with an answer and its sources
C9_Witness ==
    /\ pc = "Done"
    /\ Failed("initialize_embeddings") = FALSE
    /\ InSeq("initialize_embeddings", prevFailures)
    /\ failures = << >>
    /\ "sources" \in DOMAIN answer
    /\ Last(messages) = AssistantMessage(answer["answer"])

\* C10: the chat history only grows, by one message at a time: a user
\* message when a prompt starts a turn, an assistant message when the turn
\* has gone through qa_with_sources; a finished turn has added its user
\* message and, if and only if it reached qa_with_sources, one assistant
\* message after it.
C10_TurnTally ==
    pc = "Done" =>
        IF Reached("qa_with_sources") /\ uncaught = NoException
        THEN /\ Len(messages) >= 2
             /\ messages[Len(messages) - 1] = UserMessage(prompt)
             /\ Last(messages) = AssistantMessage(answer["answer"])
        ELSE /\ Len(messages) >= 1
             /\ Last(messages) = UserMessage(prompt)

C10_Step ==
    /\ IsPrefix(messages, messages')
    /\ Len(messages') <= Len(messages) + 1
    /\ pc' = "InitLLM" <=>
          (Len(messages') = Len(messages) + 1 /\ Last(messages').role = "user")
    /\ (pc = "Write" /\ uncaught' = NoException) <=>
          (Len(messages') = Len(messages) + 1 /\ Last(messages').role = "assistant")
    /\ pc = "Write" => Reached("qa_with_sources")

C10_HistoryOnlyGrows == [](C10_TurnTally) /\ [][C10_Step]_vars

\* two turns that each left a user message and no reply
C10_Witness ==
    /\ pc = "Done"
    /\ Len(messages) = 2
    /\ messages[1].role = "user"
    /\ messages[2].role = "user"
    /\ Failed("initialize_embeddings")

=============================================================================
